---------------------------- MODULE Spec2Model ----------------------------
(***************************************************************************)
(* Telemetry bootstrap of beamlit/common/instrumentation.py: the OAuth2    *)
(* client-credentials token cache (get_token, renew_token_if_needed,       *)
(* get_auth_headers), the OTLP exporter factories, instrument_app and      *)
(* shutdown_instrumentation, as a state machine over the module's globals  *)
(* and the process-wide OpenTelemetry / logging state they act on.         *)
(*                                                                         *)
(* Text is a sequence of code points (str) or of byte values (bytes).      *)
(***************************************************************************)
EXTENDS Integers, Sequences, FiniteSets, TLC

\* Python's None.  A record, so that it compares (unequal) with every
\* token, session and provider record.
None == [none |-> TRUE]

(***************************************************************************)
(* base64.b64decode(s).decode("utf-8").split(":")                          *)
(***************************************************************************)

\* A result of a Python expression that may raise: the value, or the raise.
Ok(v) == [ok |-> TRUE, val |-> v]
Err == [ok |-> FALSE, val |-> <<>>]

\* The base64 alphabet's value of a character, 64 for a character outside it
\* (binascii's table_a2b_base64).
B64Index(c) ==
    IF c >= 65 /\ c <= 90 THEN c - 65
    ELSE IF c >= 97 /\ c <= 122 THEN c - 97 + 26
    ELSE IF c >= 48 /\ c <= 57 THEN c - 48 + 52
    ELSE IF c = 43 THEN 62
    ELSE IF c = 47 THEN 63
    ELSE 64

\* binascii.a2b_base64 in its default, non-strict mode: characters outside
\* the alphabet are skipped, '=' (61) ends the data once it completes a
\* quad, anything after that is ignored, and data that ends inside a quad
\* raises binascii.Error.
RECURSIVE A2bBase64(_, _, _, _, _, _)
A2bBase64(s, i, quad_pos, leftchar, pads, out) ==
    IF i > Len(s)
    THEN IF quad_pos # 0 THEN Err ELSE Ok(out)
    ELSE LET c == s[i]
             v == B64Index(c)
         IN  IF c = 61
             THEN IF quad_pos >= 2 /\ quad_pos + pads + 1 >= 4
                  THEN Ok(out)
                  ELSE A2bBase64(s, i + 1, quad_pos, leftchar,
                                 IF quad_pos >= 2 THEN pads + 1 ELSE pads, out)
             ELSE IF v = 64
             THEN A2bBase64(s, i + 1, quad_pos, leftchar, pads, out)
             ELSE IF quad_pos = 0
             THEN A2bBase64(s, i + 1, 1, v, 0, out)
             ELSE IF quad_pos = 1
             THEN A2bBase64(s, i + 1, 2, v % 16, 0,
                            Append(out, leftchar * 4 + v \div 16))
             ELSE IF quad_pos = 2
             THEN A2bBase64(s, i + 1, 3, v % 4, 0,
                            Append(out, leftchar * 16 + v \div 4))
             ELSE A2bBase64(s, i + 1, 0, 0, 0,
                            Append(out, leftchar * 64 + v))

\* base64.b64decode(s) of a str: the str is first encoded as ASCII
\* (ValueError on a code point above 127), then decoded by a2b_base64.
B64Decode(s) ==
    IF \E i \in 1..Len(s) : s[i] > 127
    THEN Err
    ELSE A2bBase64(s, 1, 0, 0, 0, <<>>)

\* A UTF-8 continuation byte.
IsCont(b) == b >= 128 /\ b <= 191

\* bytes.decode("utf-8"), strict: the code points, or UnicodeDecodeError on
\* a bad lead byte, a missing or bad continuation byte, an overlong form, a
\* surrogate, or a code point above U+10FFFF.
RECURSIVE Utf8Decode(_, _, _)
Utf8Decode(b, i, out) ==
    IF i > Len(b) THEN Ok(out)
    ELSE LET b0 == b[i]
             has(k) == i + k <= Len(b)
         IN  IF b0 < 128
             THEN Utf8Decode(b, i + 1, Append(out, b0))
             ELSE IF b0 >= 194 /\ b0 <= 223
             THEN IF has(1) /\ IsCont(b[i + 1])
                  THEN Utf8Decode(b, i + 2,
                           Append(out, (b0 - 192) * 64 + (b[i + 1] - 128)))
                  ELSE Err
             ELSE IF b0 >= 224 /\ b0 <= 239
             THEN IF /\ has(2) /\ IsCont(b[i + 1]) /\ IsCont(b[i + 2])
                     /\ (b0 = 224 => b[i + 1] >= 160)
                     /\ (b0 = 237 => b[i + 1] <= 159)
                  THEN Utf8Decode(b, i + 3,
                           Append(out, (b0 - 224) * 4096 + (b[i + 1] - 128) * 64
                                       + (b[i + 2] - 128)))
                  ELSE Err
             ELSE IF b0 >= 240 /\ b0 <= 244
             THEN IF /\ has(3) /\ IsCont(b[i + 1]) /\ IsCont(b[i + 2])
                     /\ IsCont(b[i + 3])
                     /\ (b0 = 240 => b[i + 1] >= 144)
                     /\ (b0 = 244 => b[i + 1] <= 143)
                  THEN Utf8Decode(b, i + 4,
                           Append(out, (b0 - 240) * 262144 + (b[i + 1] - 128) * 4096
                                       + (b[i + 2] - 128) * 64 + (b[i + 3] - 128)))
                  ELSE Err
             ELSE Err

\* str.split(":"): the pieces between the ':' (58) separators, always at
\* least one piece.
RECURSIVE SplitColon(_, _, _, _)
SplitColon(s, i, cur, parts) ==
    IF i > Len(s) THEN Append(parts, cur)
    ELSE IF s[i] = 58
    THEN SplitColon(s, i + 1, <<>>, Append(parts, cur))
    ELSE SplitColon(s, i + 1, Append(cur, s[i]), parts)

\* The try block of get_token: decode, then unpack the split into exactly
\* two names; every exception is caught by the caller.
\* Unpack2 that takes the first two of two or more pieces.
Unpack2_AtLeastTwo(parts) ==
    IF Len(parts) >= 2
    THEN Ok([client_id |-> parts[1], client_secret |-> parts[2]])
    ELSE Err

\* client_id, client_secret = decoded_creds.split(":")
Unpack2(parts) ==
    IF Len(parts) = 2
    THEN Ok([client_id |-> parts[1], client_secret |-> parts[2]])
    ELSE Err

DecodeCreds(base64_creds) ==
    CHOOSE y \in
        { IF ~raw.ok THEN Err
          ELSE CHOOSE z \in
                 { IF ~txt.ok THEN Err
                   ELSE CHOOSE u \in {Unpack2(parts) :
                                       parts \in {SplitColon(txt.val, 1, <<>>, <<>>)}} : TRUE
                   : txt \in {Utf8Decode(raw.val, 1, <<>>)} } : TRUE
          : raw \in {B64Decode(base64_creds)} } : TRUE

(***************************************************************************)
(* Bounds and input sets                                                   *)
(***************************************************************************)

\* The clock advances in steps of ClockStep seconds, MaxTicks times at most.
ClockStep == 7200
MaxTicks == 2
\* instrument_app is called MaxInstrumentCalls times at most.
MaxInstrumentCalls == 3
\* MaxCallers threads call renew_token_if_needed(), MaxCalls times at most
\* between them.
MaxCallers == 2
MaxCalls == 3

\* None where a str is expected: no str holds the code point -1.
NoneStr == <<-1>>

\* settings.authentication.client.credentials: absent (None), or a str.
CredentialValues ==
    { NoneStr,
      <<>>,                                   \* ""
      <<89, 84, 112, 105>>,                   \* "YTpi"      b"a:b"
      <<89, 122, 112, 107, 90, 81, 61, 61>>,  \* "YzpkZQ=="  b"c:de"
      <<89, 84, 33, 112, 105>>,               \* "YT!pi"     b"a:b", '!' skipped
      <<79, 103, 61, 61>>,                    \* "Og=="      b":"
      <<119, 54, 107, 54>>,                   \* "w6k6"      b"\xc3\xa9:"
      <<89, 84, 112>>,                        \* "YTp"       incorrect padding
      <<233>>,                                \* U+00E9      not ASCII
      <<47, 119, 61, 61>>,                    \* "/w=="      b"\xff", not UTF-8
      <<89, 87, 73, 61>>,                     \* "YWI="      b"ab", no ':'
      <<89, 84, 112, 105, 79, 109, 77, 61>> } \* "YTpiOmM="  b"a:b:c", two ':'

\* The credentials the process is run with where their decoding is not the
\* subject: empty, two well-formed ones, a malformed one.
FewCredentials ==
    { <<>>, <<89, 84, 112, 105>>, <<89, 122, 112, 107, 90, 81, 61, 61>>,
      <<89, 84, 112>> }

\* What the token endpoint may answer to one request: an error, or a token
\* payload whose expires_at lies lifetime seconds from the request (authlib
\* sets expires_at to int(time.time()) + expires_in, so a payload with
\* expires_in = 0 is already expired when it is returned).
AccessTokens == {"tokA", "tokB"}
Lifetimes == {-1, 7200}
Failure == [ok |-> FALSE, access_token |-> "", lifetime |-> 0]
Responses ==
    {Failure} \cup [ok : {TRUE}, access_token : AccessTokens, lifetime : Lifetimes]

\* The answers used where the calls are many: an error, a token expired on
\* arrival, a token that lasts.
FewResponses ==
    { Failure,
      [ok |-> TRUE, access_token |-> "tokA", lifetime |-> -1],
      [ok |-> TRUE, access_token |-> "tokB", lifetime |-> 7200] }

\* The endpoint's answers to the requests of one call, in order.  A call
\* sends another request only after an answer that is expired on arrival,
\* and instrument_app sends three at most.
Short(r) == r.ok /\ r.lifetime < 0
OneAnswer(R) == {<<r>> : r \in R}
Answers(R) ==
    {<<r>> : r \in {x \in R : ~Short(x)}}
    \cup {<<r1, r2>> : r1 \in {x \in R : Short(x)},
                       r2 \in {x \in R : ~Short(x)}}
    \cup {<<r1, r2, r3>> : r1 \in {x \in R : Short(x)},
                           r2 \in {x \in R : Short(x)},
                           r3 \in R}

(***************************************************************************)
(* State                                                                   *)
(***************************************************************************)

VARIABLES
    now,              \* datetime.now().timestamp()
    settings,         \* what get_settings() returns: None before init()
    oauth_session,    \* module global: None or the OAuth2Session
    current_token,    \* module global: None or the cached token
    tracer,           \* module global: None or the tracer handle
    meter,            \* module global: None or the meter handle
    logger,           \* module global: None, never assigned
    TRACER_PROVIDER,  \* opentelemetry.trace's global provider, None if unset
    METER_PROVIDER,   \* opentelemetry.metrics' global provider
    LOGGER_PROVIDER,  \* opentelemetry._logs' global provider
    root_handlers,    \* logging.getLogger().handlers
    instrument_calls, \* the instrument_app calls so far, each by its outcome
    last,             \* the last call: its name, outcome and what it did
    callers,          \* the threads inside renew_token_if_needed(), each with
                      \* its position and its locals
    produced,         \* the tokens the threads' get_token() calls returned
    assigned,         \* the value of the last assignment to current_token
    sessions_created  \* how many OAuth2Session objects the threads created

envVars == <<now, settings>>
tokenVars == <<oauth_session, current_token>>
otelVars == <<tracer, meter, logger, TRACER_PROVIDER, METER_PROVIDER,
              LOGGER_PROVIDER, root_handlers, instrument_calls>>
threadVars == <<callers, produced, assigned, sessions_created>>
vars == <<now, settings, oauth_session, current_token, tracer, meter, logger,
          TRACER_PROVIDER, METER_PROVIDER, LOGGER_PROVIDER, root_handlers,
          instrument_calls, last, callers, produced, assigned,
          sessions_created>>

\* The state a call runs on, with the endpoint's answers to come and the log
\* of what the call has done so far: ev, the functions entered and library
\* calls made, in order, and reqs, the requests sent to the token endpoint.
Globals(answers) ==
    [ now |-> now, settings |-> settings,
      oauth_session |-> oauth_session, current_token |-> current_token,
      tracer |-> tracer, meter |-> meter, logger |-> logger,
      TRACER_PROVIDER |-> TRACER_PROVIDER, METER_PROVIDER |-> METER_PROVIDER,
      LOGGER_PROVIDER |-> LOGGER_PROVIDER, root_handlers |-> root_handlers,
      instrument_calls |-> instrument_calls,
      answers |-> answers, ev |-> <<>>, reqs |-> <<>> ]

Log(st, e) == [st EXCEPT !.ev = Append(@, e)]

\* F applied to the value of v, v evaluated once: x = v; ... F(x).
Bind(v, F(_)) == CHOOSE y \in {F(x) : x \in {v}} : TRUE
Return(st, v) == [st |-> st, ret |-> v, exc |-> ""]
Raise(st, e) == [st |-> st, ret |-> None, exc |-> e]

(***************************************************************************)
(* Credential provider                                                     *)
(***************************************************************************)

\* The synthetic lifetime of the placeholder token, in seconds.
PlaceholderTTL == 7200

\* The empty token get_token returns when there are no usable credentials.
PlaceholderToken(st) ==
    [access_token |-> "", expires_at |-> st.now + PlaceholderTTL]

\* The credentials get_token reads: "" when the settings, or the
\* credentials in them, are None or empty.
Base64Creds(st) ==
    IF st.settings # None /\ st.settings.credentials # NoneStr
       /\ st.settings.credentials # <<>>
    THEN st.settings.credentials
    ELSE <<>>

\* OAuth2Session(client_id=client_id, client_secret=client_secret)
OAuth2Session(client_id, client_secret) ==
    [client_id |-> client_id, client_secret |-> client_secret]

\* FetchToken that sends the credentials the session was created with.
FetchToken_SessionCreds(st, client_id, client_secret) ==
    LET resp == IF st.answers = <<>> THEN Failure ELSE Head(st.answers)
        req == [ url |-> st.settings.base_url \o "/oauth/token",
                 client_id |-> st.oauth_session.client_id,
                 client_secret |-> st.oauth_session.client_secret,
                 session |-> st.oauth_session ]
        sent == [Log(st, "fetch_token") EXCEPT
                    !.reqs = Append(@, req),
                    !.answers = IF @ = <<>> THEN @ ELSE Tail(@)]
    IN  IF resp.ok
        THEN Return(sent, [ access_token |-> resp.access_token,
                            expires_at |-> st.now + resp.lifetime ])
        ELSE Raise(sent, "OAuthError")

\* oauth_session.fetch_token(url, client_id, client_secret): one request to
\* the token endpoint, sent through the session.  The endpoint's payload is
\* returned, a failure raises.
FetchToken(st, client_id, client_secret) ==
    LET resp == IF st.answers = <<>> THEN Failure ELSE Head(st.answers)
        req == [ url |-> st.settings.base_url \o "/oauth/token",
                 client_id |-> client_id, client_secret |-> client_secret,
                 session |-> st.oauth_session ]
        sent == [Log(st, "fetch_token") EXCEPT
                    !.reqs = Append(@, req),
                    !.answers = IF @ = <<>> THEN @ ELSE Tail(@)]
    IN  IF resp.ok
        THEN Return(sent, [ access_token |-> resp.access_token,
                            expires_at |-> st.now + resp.lifetime ])
        ELSE Raise(sent, "OAuthError")

\* get_token()
\* FetchWithSession with the fetch inside the try block: a failure of the
\* endpoint is swallowed and the placeholder returned.
FetchWithSession_Swallow(st, creds) ==
    Bind(FetchToken(IF st.oauth_session = None
                    THEN [st EXCEPT !.oauth_session =
                             OAuth2Session(creds.client_id,
                                           creds.client_secret)]
                    ELSE st,
                    creds.client_id, creds.client_secret),
         LAMBDA r : IF r.exc # "" THEN Return(r.st, PlaceholderToken(st)) ELSE r)

\* The rest of get_token once the credentials are decoded: the session is
\* created if there is none, and the token is fetched through it.
FetchWithSession(st, creds) ==
    FetchToken(IF st.oauth_session = None
               THEN [st EXCEPT !.oauth_session =
                        OAuth2Session(creds.client_id, creds.client_secret)]
               ELSE st,
               creds.client_id, creds.client_secret)

\* get_token that also caches the token it returns.
get_token_Caches(st0) ==
    LET st == Log(st0, "get_token")
        base64_creds == Base64Creds(st)
    IN  Bind(IF base64_creds # <<>>
             THEN Bind(DecodeCreds(base64_creds),
                       LAMBDA creds :
                           IF ~creds.ok
                           THEN Return(st, PlaceholderToken(st))
                           ELSE FetchWithSession(st, creds.val))
             ELSE Return(st, PlaceholderToken(st)),
             LAMBDA r :
                 IF r.exc # "" THEN r
                 ELSE [r EXCEPT !.st.current_token = r.ret])

get_token(st0) ==
    LET st == Log(st0, "get_token")
        base64_creds == Base64Creds(st)
    IN  IF base64_creds # <<>>
        THEN Bind(DecodeCreds(base64_creds),
                  LAMBDA creds :
                      IF ~creds.ok
                      THEN Return(st, PlaceholderToken(st))
                      ELSE FetchWithSession(st, creds.val))
        ELSE Return(st, PlaceholderToken(st))

\* TokenExpired with the comparison turned round.
TokenExpired_Reversed(tok, t) == tok.expires_at > t

\* TokenExpired that counts the instant of expiry as expired.
TokenExpired_Inclusive(tok, t) == tok.expires_at <= t

\* TokenExpired that takes the empty token for expired at any time.
TokenExpired_OrEmpty(tok, t) == tok.access_token = "" \/ tok.expires_at < t

\* The expiry test of renew_token_if_needed.
TokenExpired(tok, t) == tok.expires_at < t

\* renew_token_if_needed without the global declaration: the fetched token
\* is returned and not cached.
renew_token_if_needed_NoStore(st0) ==
    LET st == Log(st0, "renew_token_if_needed")
    IN  IF st.current_token = None \/ TokenExpired(st.current_token, st.now)
        THEN get_token(st)
        ELSE Return(st, st.current_token)

\* renew_token_if_needed that catches the failure of get_token(), caches the
\* placeholder token and raises the failure again.
renew_token_if_needed_CachesFailure(st0) ==
    LET st == Log(st0, "renew_token_if_needed")
    IN  IF st.current_token = None \/ TokenExpired(st.current_token, st.now)
        THEN Bind(get_token(st),
                  LAMBDA r :
                      IF r.exc # ""
                      THEN [r EXCEPT !.st.current_token = PlaceholderToken(st)]
                      ELSE Return([r.st EXCEPT !.current_token = r.ret], r.ret))
        ELSE Return(st, st.current_token)

\* renew_token_if_needed()
renew_token_if_needed(st0) ==
    LET st == Log(st0, "renew_token_if_needed")
    IN  IF st.current_token = None \/ TokenExpired(st.current_token, st.now)
        THEN Bind(get_token(st),
                  LAMBDA r :
                      IF r.exc # ""
                      THEN r
                      ELSE Return([r.st EXCEPT !.current_token = r.ret], r.ret))
        ELSE Return(st, st.current_token)

\* AuthHeaders without the space after "Bearer".
AuthHeaders_NoSpace(token, workspace) ==
    ("authorization" :> ("Bearer" \o token.access_token))
    @@ ("x-beamlit-workspace" :> workspace)

\* The header mapping get_auth_headers builds.
AuthHeaders(token, workspace) ==
    ("authorization" :> ("Bearer " \o token.access_token))
    @@ ("x-beamlit-workspace" :> workspace)

\* get_auth_headers(): get_settings().workspace raises AttributeError when
\* the settings are None, after the token was renewed.
get_auth_headers(st0) ==
    Bind(renew_token_if_needed(Log(st0, "get_auth_headers")),
         LAMBDA r :
             IF r.exc # "" THEN r
             ELSE IF r.st.settings = None THEN Raise(r.st, "AttributeError")
             ELSE Return(r.st, AuthHeaders(r.ret, r.st.settings.workspace)))

\* get_logger()
get_logger(st0) ==
    LET st == Log(st0, "get_logger")
    IN  IF st.logger = None
        THEN Raise(st, "Logger is not initialized")
        ELSE Return(st, st.logger)

\* get_resource_attributes(): the ambient resource attributes, none here,
\* with the workspace and the service name.
get_resource_attributes(st0) ==
    LET st == Log(st0, "get_resource_attributes")
    IN  IF st.settings = None
        THEN Raise(st, "Settings are not initialized")
        ELSE Return(st, ("workspace" :> st.settings.workspace)
                        @@ ("service.name" :> st.settings.name))

(***************************************************************************)
(* Exporter factory                                                        *)
(***************************************************************************)

\* An OTLP exporter keeps the headers it is constructed with.
Exporter(signal, headers) == [signal |-> signal, headers |-> headers]

\* GetExporter that does not read the telemetry switch.
GetExporter_IgnoresSwitch(st0, fn, signal) ==
    LET st == Log(st0, fn)
    IN  IF st.settings = None THEN Raise(st, "AttributeError")
        ELSE Bind(get_auth_headers(st),
                  LAMBDA h :
                      IF h.exc # "" THEN h
                      ELSE Return(h.st, Exporter(signal, h.ret)))

\* GetExporter that builds the headers from the cached token when there is
\* one, without asking get_auth_headers() to renew it.
GetExporter_CachedToken(st0, fn, signal) ==
    LET st == Log(st0, fn)
    IN  IF st.settings = None THEN Raise(st, "AttributeError")
        ELSE IF ~st.settings.enable_opentelemetry THEN Return(st, None)
        ELSE IF st.current_token # None
        THEN Return(st, Exporter(signal, AuthHeaders(st.current_token,
                                                     st.settings.workspace)))
        ELSE Bind(get_auth_headers(st),
                  LAMBDA h :
                      IF h.exc # "" THEN h
                      ELSE Return(h.st, Exporter(signal, h.ret)))

\* The shape the three exporter functions share: settings.enable_opentelemetry
\* raises AttributeError on None settings; None when telemetry is disabled;
\* else an exporter over get_auth_headers().
GetExporter(st0, fn, signal) ==
    LET st == Log(st0, fn)
    IN  IF st.settings = None THEN Raise(st, "AttributeError")
        ELSE IF ~st.settings.enable_opentelemetry THEN Return(st, None)
        ELSE Bind(get_auth_headers(st),
                  LAMBDA h :
                      IF h.exc # "" THEN h
                      ELSE Return(h.st, Exporter(signal, h.ret)))

get_metrics_exporter(st) == GetExporter(st, "get_metrics_exporter", "metric")
get_span_exporter(st) == GetExporter(st, "get_span_exporter", "span")
get_log_exporter(st) == GetExporter(st, "get_log_exporter", "log")

(***************************************************************************)
(* Instrumentation installer                                               *)
(***************************************************************************)

\* A provider object: its kind ("sdk" the real exporting one, "noop", or
\* "proxy", what the API hands out while no provider is set), the
\* instrument_app call that constructed it (its identity), its resource,
\* and the exporters of its processors or readers.
Provider(kind, born, resource, exporters) ==
    [ kind |-> kind, born |-> born, resource |-> resource,
      exporters |-> exporters ]
Proxy == Provider("proxy", 0, None, <<>>)

\* IsSdk with the test negated, as when "not" is dropped from
\* "if not isinstance(...)".
IsSdk_Negated(p) == p.kind # "sdk"

\* isinstance(p, TracerProvider / MeterProvider / LoggerProvider) of the SDK
IsSdk(p) == p.kind = "sdk"

\* provider.get_tracer(__name__) / get_meter(__name__): a handle of p
Handle(p) == [kind |-> p.kind, born |-> p.born]

\* trace.get_tracer_provider() and its metric and log siblings
get_tracer_provider(st) ==
    IF st.TRACER_PROVIDER = None THEN Proxy ELSE st.TRACER_PROVIDER
get_meter_provider(st) ==
    IF st.METER_PROVIDER = None THEN Proxy ELSE st.METER_PROVIDER
get_logger_provider(st) ==
    IF st.LOGGER_PROVIDER = None THEN Proxy ELSE st.LOGGER_PROVIDER

\* set_tracer_provider that replaces a provider already set.
set_tracer_provider_Overrides(st0, p) ==
    [Log(st0, "set_tracer_provider") EXCEPT !.TRACER_PROVIDER = p]

\* trace.set_tracer_provider(p) and its siblings: the OpenTelemetry API sets
\* a global provider once; a later set is refused with a warning
\* ("Overriding of current TracerProvider is not allowed").
set_tracer_provider(st0, p) ==
    LET st == Log(st0, "set_tracer_provider")
    IN  IF st.TRACER_PROVIDER = None THEN [st EXCEPT !.TRACER_PROVIDER = p] ELSE st
set_meter_provider(st0, p) ==
    LET st == Log(st0, "set_meter_provider")
    IN  IF st.METER_PROVIDER = None THEN [st EXCEPT !.METER_PROVIDER = p] ELSE st
set_logger_provider(st0, p) ==
    LET st == Log(st0, "set_logger_provider")
    IN  IF st.LOGGER_PROVIDER = None THEN [st EXCEPT !.LOGGER_PROVIDER = p] ELSE st

\* Resource.create({...}) of instrument_app
AppResource(st) ==
    [ name |-> st.settings.name, namespace |-> st.settings.workspace,
      workspace |-> st.settings.workspace ]

\* The telemetry-disabled branch of instrument_app.
InstallNoOp(st, n) ==
    Bind(set_tracer_provider(Log(st, "NoOpTracerProvider"),
                             Provider("noop", n, None, <<>>)),
         LAMBDA s1 :
    Bind(set_meter_provider(
             Log([s1 EXCEPT !.tracer = Handle(get_tracer_provider(s1))],
                 "NoOpMeterProvider"),
             Provider("noop", n, None, <<>>)),
         LAMBDA s3 :
    Return([s3 EXCEPT !.meter = Handle(get_meter_provider(s3))], None)))

\* "Set up the TracerProvider if not already set"
SetUpTracerProvider(st, n) ==
    IF ~IsSdk(get_tracer_provider(st))
    THEN Bind(get_span_exporter(Log(st, "TracerProvider")),
              LAMBDA e :
                  IF e.exc # "" THEN e
                  ELSE LET p == Provider("sdk", n, AppResource(st), <<e.ret>>)
                       IN  Return([set_tracer_provider(e.st, p) EXCEPT
                                      !.tracer = Handle(p)], None))
    ELSE Return([st EXCEPT !.tracer = Handle(get_tracer_provider(st))], None)

\* "Set up the MeterProvider if not already set": the exporter is built
\* before the provider.
SetUpMeterProvider(st, n) ==
    IF ~IsSdk(get_meter_provider(st))
    THEN Bind(get_metrics_exporter(st),
              LAMBDA e :
                  IF e.exc # "" THEN e
                  ELSE LET p == Provider("sdk", n, AppResource(st), <<e.ret>>)
                       IN  Return([set_meter_provider(Log(e.st, "MeterProvider"), p)
                                      EXCEPT !.meter = Handle(p)], None))
    ELSE Return([st EXCEPT !.meter = Handle(get_meter_provider(st))], None)

\* SetUpLoggerProvider that also keeps the log provider in the module's
\* logger, as the tracer and the meter are kept.
SetUpLoggerProvider_SetsLogger(st, n) ==
    IF ~IsSdk(get_logger_provider(st))
    THEN LET p == Provider("sdk", n, None, <<>>)
         IN  Bind(get_log_exporter(
                      set_logger_provider(Log(st, "LoggerProvider"), p)),
                  LAMBDA e :
                      IF e.exc # "" THEN e
                      ELSE Return(
                               [Log(e.st, "addHandler") EXCEPT
                                   !.LOGGER_PROVIDER =
                                       IF @ = p
                                       THEN [@ EXCEPT !.exporters = <<e.ret>>]
                                       ELSE @,
                                   !.root_handlers = Append(@, Handle(p)),
                                   !.logger = Handle(p)],
                               None))
    ELSE Return([st EXCEPT !.logger = Handle(get_logger_provider(st))], None)

\* SetUpLoggerProvider with the handler added outside the if, in every call.
SetUpLoggerProvider_HandlerEveryCall(st, n) ==
    IF ~IsSdk(get_logger_provider(st))
    THEN LET p == Provider("sdk", n, None, <<>>)
         IN  Bind(get_log_exporter(
                      set_logger_provider(Log(st, "LoggerProvider"), p)),
                  LAMBDA e :
                      IF e.exc # "" THEN e
                      ELSE Return(
                               [Log(e.st, "addHandler") EXCEPT
                                   !.LOGGER_PROVIDER =
                                       IF @ = p
                                       THEN [@ EXCEPT !.exporters = <<e.ret>>]
                                       ELSE @,
                                   !.root_handlers = Append(@, Handle(p))],
                               None))
    ELSE Return([Log(st, "addHandler") EXCEPT
                    !.root_handlers =
                        Append(@, Handle(get_logger_provider(st)))], None)

\* The log provider: it is set globally before its exporter is built, then
\* given its processor, and a LoggingHandler over it is added to the root
\* logger.
SetUpLoggerProvider(st, n) ==
    IF ~IsSdk(get_logger_provider(st))
    THEN LET p == Provider("sdk", n, None, <<>>)
         IN  Bind(get_log_exporter(
                      set_logger_provider(Log(st, "LoggerProvider"), p)),
                  LAMBDA e :
                      IF e.exc # "" THEN e
                      ELSE Return(
                               [Log(e.st, "addHandler") EXCEPT
                                   !.LOGGER_PROVIDER =
                                       IF @ = p
                                       THEN [@ EXCEPT !.exporters = <<e.ret>>]
                                       ELSE @,
                                   !.root_handlers = Append(@, Handle(p))],
                               None))
    ELSE Return(st, None)

\* The body of instrument_app(app); n numbers the call.
InstrumentAppBody(st, n) ==
    IF st.settings = None THEN Raise(st, "AttributeError")
    ELSE IF ~st.settings.enable_opentelemetry THEN InstallNoOp(st, n)
    ELSE Bind(SetUpTracerProvider(st, n), LAMBDA t : IF t.exc # "" THEN t ELSE
         Bind(SetUpMeterProvider(t.st, n), LAMBDA m : IF m.exc # "" THEN m ELSE
         Bind(SetUpLoggerProvider(m.st, n), LAMBDA l : IF l.exc # "" THEN l ELSE
         Return(Log(Log(l.st, "FastAPIInstrumentor.instrument_app"),
                    "HTTPXClientInstrumentor.instrument"), None))))

\* How a call of instrument_app went: "unset" on None settings, else
\* "disabled", "enabled" (it returned) or "raised" (enabled, and it raised).
CallOutcome(st, r) ==
    IF st.settings = None THEN "unset"
    ELSE IF ~st.settings.enable_opentelemetry THEN "disabled"
    ELSE IF r.exc = "" THEN "enabled"
    ELSE "raised"

\* instrument_app(app)
instrument_app(st0) ==
    Bind(InstrumentAppBody(Log(st0, "instrument_app"),
                           Len(st0.instrument_calls) + 1),
         LAMBDA r :
             [r EXCEPT !.st.instrument_calls = Append(@, CallOutcome(st0, r))])

\* shutdown_instrumentation without the isinstance tests: a set handle is
\* enough for shutdown to be called on the global provider.
shutdown_instrumentation_NoKindTest(st0) ==
    LET st == Log(st0, "shutdown_instrumentation")
        s1 == IF st.tracer # None THEN Log(st, "TracerProvider.shutdown") ELSE st
        s2 == IF s1.meter # None THEN Log(s1, "MeterProvider.shutdown") ELSE s1
    IN  Return(s2, None)

\* shutdown_instrumentation()
shutdown_instrumentation(st0) ==
    LET st == Log(st0, "shutdown_instrumentation")
        s1 == IF st.tracer # None /\ IsSdk(get_tracer_provider(st))
              THEN Log(st, "TracerProvider.shutdown")
              ELSE st
        s2 == IF s1.meter # None /\ IsSdk(get_meter_provider(s1))
              THEN Log(s1, "MeterProvider.shutdown")
              ELSE s1
    IN  Return(s2, None)

(***************************************************************************)
(* The calls, each one whole                                               *)
(***************************************************************************)

\* What a finished call leaves in the state: the globals as the call left
\* them and, in last, the call's name, its outcome and its log, with the
\* cached token it started from.
Finish(op, result) ==
    \E r \in {result} :
    /\ oauth_session' = r.st.oauth_session
    /\ current_token' = r.st.current_token
    /\ tracer' = r.st.tracer
    /\ meter' = r.st.meter
    /\ logger' = r.st.logger
    /\ TRACER_PROVIDER' = r.st.TRACER_PROVIDER
    /\ METER_PROVIDER' = r.st.METER_PROVIDER
    /\ LOGGER_PROVIDER' = r.st.LOGGER_PROVIDER
    /\ root_handlers' = r.st.root_handlers
    /\ instrument_calls' = r.st.instrument_calls
    /\ last' = [ op |-> op, ret |-> r.ret, exc |-> r.exc,
                 ev |-> r.st.ev, reqs |-> r.st.reqs,
                 pre_token |-> current_token ]
    /\ UNCHANGED <<envVars, threadVars>>

\* A call of each function, the token endpoint answering with a.
GetTokenWith(a) == Finish("get_token", get_token(Globals(a)))
RenewTokenIfNeededWith(a) ==
    Finish("renew_token_if_needed", renew_token_if_needed(Globals(a)))
GetAuthHeadersWith(a) == Finish("get_auth_headers", get_auth_headers(Globals(a)))
GetMetricsExporterWith(a) ==
    Finish("get_metrics_exporter", get_metrics_exporter(Globals(a)))
GetSpanExporterWith(a) ==
    Finish("get_span_exporter", get_span_exporter(Globals(a)))
GetLogExporterWith(a) ==
    Finish("get_log_exporter", get_log_exporter(Globals(a)))
InstrumentAppWith(a) ==
    /\ Len(instrument_calls) < MaxInstrumentCalls
    /\ Finish("instrument_app", instrument_app(Globals(a)))

GetToken == \E a \in OneAnswer(Responses) : GetTokenWith(a)
RenewTokenIfNeeded == \E a \in OneAnswer(Responses) : RenewTokenIfNeededWith(a)
GetAuthHeaders == \E a \in OneAnswer(Responses) : GetAuthHeadersWith(a)
GetLogger == Finish("get_logger", get_logger(Globals(<<>>)))
GetResourceAttributes ==
    Finish("get_resource_attributes", get_resource_attributes(Globals(<<>>)))
GetMetricsExporter == \E a \in OneAnswer(FewResponses) : GetMetricsExporterWith(a)
GetSpanExporter == \E a \in OneAnswer(FewResponses) : GetSpanExporterWith(a)
GetLogExporter == \E a \in OneAnswer(FewResponses) : GetLogExporterWith(a)
InstrumentApp == \E a \in Answers(FewResponses) : InstrumentAppWith(a)
ShutdownInstrumentation ==
    Finish("shutdown_instrumentation", shutdown_instrumentation(Globals(<<>>)))

(***************************************************************************)
(* Threads inside renew_token_if_needed()                                  *)
(***************************************************************************)

\* The module takes no lock: threads of the host interleave between the
\* reads and the writes of the globals.  A step is one read or one write of
\* a global with the local computation around it.  The two reads of
\* current_token in the test of line 88-89 are one step: a token is never
\* replaced by None, so reading it twice tells what the second read alone
\* tells.

Callers == 1..MaxCallers

\* A thread outside the function: pc its position, n the calls it has made,
\* creds and token the locals client_id/client_secret and the value of
\* get_token() while they are live, ret and exc how its last call ended.
Idle ==
    [ pc |-> "idle", n |-> 0, creds |-> None, token |-> None,
      ret |-> None, exc |-> "" ]

\* The calls the threads have made so far.
RECURSIVE CallsMade(_)
CallsMade(T) ==
    IF T = {} THEN 0
    ELSE LET t == CHOOSE x \in T : TRUE
         IN  callers[t].n + CallsMade(T \ {t})

\* Line 91 with the token updated in place, field after field, the
\* access_token first.
StoreToken_InPlace(cur, tok) ==
    IF cur = None THEN tok ELSE [cur EXCEPT !.access_token = tok.access_token]

\* current_token = <the token get_token() returned>
StoreToken(cur, tok) == tok

\* Lines 87-90: the thread enters and tests the cached token.
Renew_Test(t) ==
    /\ callers[t].pc = "idle"
    /\ CallsMade(Callers) < MaxCalls
    /\ callers' = [callers EXCEPT ![t] =
          [ Idle EXCEPT
              !.n = callers[t].n + 1,
              !.pc = IF \/ current_token = None
                        \/ TokenExpired(current_token, now)
                     THEN "get_token" ELSE "return" ]]
    /\ UNCHANGED <<envVars, tokenVars, otelVars, last, produced, assigned,
                   sessions_created>>

\* Lines 45-69: the credentials are read and decoded; without usable
\* credentials get_token returns the placeholder token.
GetToken_Decode(t) ==
    /\ callers[t].pc = "get_token"
    /\ \E st \in {Globals(<<>>)} :
       \E creds \in {IF Base64Creds(st) = <<>> THEN Err
                     ELSE DecodeCreds(Base64Creds(st))} :
          IF creds.ok
          THEN /\ callers' = [callers EXCEPT ![t].pc = "test_session",
                                             ![t].creds = creds.val]
               /\ UNCHANGED produced
          ELSE /\ callers' = [callers EXCEPT ![t].pc = "store",
                                             ![t].token = PlaceholderToken(st)]
               /\ produced' = produced \cup {PlaceholderToken(st)}
    /\ UNCHANGED <<envVars, tokenVars, otelVars, last, assigned,
                   sessions_created>>

\* Line 72 testing whether the session is the one for the credentials just
\* decoded, so that changed credentials give a new session.
GetToken_TestSession_Rebuild(t) ==
    /\ callers[t].pc = "test_session"
    /\ callers' = [callers EXCEPT ![t].pc =
          IF oauth_session # OAuth2Session(callers[t].creds.client_id,
                                          callers[t].creds.client_secret)
          THEN "new_session" ELSE "fetch"]
    /\ UNCHANGED <<envVars, tokenVars, otelVars, last, produced, assigned,
                   sessions_created>>

\* Line 72: if oauth_session is None
GetToken_TestSession(t) ==
    /\ callers[t].pc = "test_session"
    /\ callers' = [callers EXCEPT ![t].pc =
          IF oauth_session = None THEN "new_session" ELSE "fetch"]
    /\ UNCHANGED <<envVars, tokenVars, otelVars, last, produced, assigned,
                   sessions_created>>

\* Lines 73-75: a session is created and assigned to the global.
GetToken_NewSession(t) ==
    /\ callers[t].pc = "new_session"
    /\ oauth_session' = OAuth2Session(callers[t].creds.client_id,
                                      callers[t].creds.client_secret)
    /\ sessions_created' = sessions_created + 1
    /\ callers' = [callers EXCEPT ![t].pc = "fetch"]
    /\ UNCHANGED <<envVars, current_token, otelVars, last, produced, assigned>>

\* Lines 77-82: the token is fetched through the session the global holds
\* now; a failure leaves the function, and renew_token_if_needed, as an
\* exception.
GetToken_Fetch(t) ==
    /\ callers[t].pc = "fetch"
    /\ \E a \in OneAnswer(FewResponses) :
       \E r \in {FetchToken(Globals(a), callers[t].creds.client_id,
                            callers[t].creds.client_secret)} :
          IF r.exc # ""
          THEN /\ callers' = [callers EXCEPT ![t].pc = "idle",
                                             ![t].creds = None,
                                             ![t].exc = r.exc]
               /\ UNCHANGED produced
          ELSE /\ callers' = [callers EXCEPT ![t].pc = "store",
                                             ![t].creds = None,
                                             ![t].token = r.ret]
               /\ produced' = produced \cup {r.ret}
    /\ UNCHANGED <<envVars, tokenVars, otelVars, last, assigned,
                   sessions_created>>

\* Line 91: current_token = get_token()
Renew_Store(t) ==
    /\ callers[t].pc = "store"
    /\ current_token' = StoreToken(current_token, callers[t].token)
    /\ assigned' = callers[t].token
    /\ callers' = [callers EXCEPT ![t].pc = "return", ![t].token = None]
    /\ UNCHANGED <<envVars, oauth_session, otelVars, last, produced,
                   sessions_created>>

\* Line 92: return current_token
Renew_Return(t) ==
    /\ callers[t].pc = "return"
    /\ callers' = [callers EXCEPT ![t].pc = "idle", ![t].ret = current_token]
    /\ UNCHANGED <<envVars, tokenVars, otelVars, last, produced, assigned,
                   sessions_created>>

(***************************************************************************)
(* The environment: the settings and the clock                             *)
(***************************************************************************)

SettingsValues(creds, enabled) ==
    [ credentials : creds, enable_opentelemetry : enabled,
      workspace : {"main"}, base_url : {"https://api"}, name : {"svc"} ]

\* init(): the settings are loaded.
LoadSettings(creds, enabled) ==
    /\ settings = None
    /\ settings' \in SettingsValues(creds, enabled)
    /\ UNCHANGED <<now, tokenVars, otelVars, last, threadVars>>

\* The configured credentials change while the process runs.
ChangeCredentials(creds) ==
    /\ settings # None
    /\ \E c \in creds \ {settings.credentials} :
          settings' = [settings EXCEPT !.credentials = c]
    /\ UNCHANGED <<now, tokenVars, otelVars, last, threadVars>>

\* The telemetry switch changes while the process runs.
SetEnableOpentelemetry ==
    /\ settings # None
    /\ settings' = [settings EXCEPT !.enable_opentelemetry = ~@]
    /\ UNCHANGED <<now, tokenVars, otelVars, last, threadVars>>

\* Time passes between two calls.
Tick ==
    /\ now + ClockStep <= MaxTicks * ClockStep
    /\ now' = now + ClockStep
    /\ UNCHANGED <<settings, tokenVars, otelVars, last, threadVars>>

NoCall ==
    [ op |-> "", ret |-> None, exc |-> "", ev |-> <<>>, reqs |-> <<>>,
      pre_token |-> None ]

Init ==
    /\ now = 0
    /\ settings = None
    /\ oauth_session = None
    /\ current_token = None
    /\ tracer = None
    /\ meter = None
    /\ logger = None
    /\ TRACER_PROVIDER = None
    /\ METER_PROVIDER = None
    /\ LOGGER_PROVIDER = None
    /\ root_handlers = <<>>
    /\ instrument_calls = <<>>
    /\ last = NoCall
    /\ callers = [t \in Callers |-> Idle]
    /\ produced = {}
    /\ assigned = None
    /\ sessions_created = 0

(***************************************************************************)
(* Spec: the token cache, run with a few credentials                       *)
(***************************************************************************)

InitSettings == LoadSettings(FewCredentials, {FALSE})
SetCredentials == ChangeCredentials(FewCredentials)

Next ==
    \/ InitSettings
    \/ SetCredentials
    \/ Tick
    \/ GetToken
    \/ RenewTokenIfNeeded
    \/ GetAuthHeaders

Spec == Init /\ [][Next]_vars

(***************************************************************************)
(* SpecDecode: get_token over every kind of credentials value              *)
(***************************************************************************)

InitSettingsAny == LoadSettings(CredentialValues, {FALSE})
SetCredentialsAny == ChangeCredentials(CredentialValues)

NextDecode ==
    \/ InitSettingsAny
    \/ SetCredentialsAny
    \/ Tick
    \/ GetToken

SpecDecode == Init /\ [][NextDecode]_vars

(***************************************************************************)
(* SpecOtel: the exporters, instrument_app and shutdown_instrumentation    *)
(***************************************************************************)

\* The clock stands still here: a cached token expires by being expired on
\* arrival.

OtelCredentials == {<<>>, <<89, 84, 112, 105>>}
InitSettingsOtel == LoadSettings(OtelCredentials, BOOLEAN)

NextOtel ==
    \/ InitSettingsOtel
    \/ SetEnableOpentelemetry
    \/ GetLogger
    \/ GetResourceAttributes
    \/ GetMetricsExporter
    \/ GetSpanExporter
    \/ GetLogExporter
    \/ InstrumentApp
    \/ ShutdownInstrumentation

SpecOtel == Init /\ [][NextOtel]_vars

(***************************************************************************)
(* SpecThreads: threads calling renew_token_if_needed() at the same time   *)
(***************************************************************************)

\* The clock stands still here as well.

ThreadCredentials == {<<>>, <<89, 84, 112, 105>>, <<89, 122, 112, 107, 90, 81, 61, 61>>}
InitSettingsThreads == LoadSettings(ThreadCredentials, {FALSE})
SetCredentialsThreads == ChangeCredentials(ThreadCredentials)

RenewTest == \E t \in Callers : Renew_Test(t)
GetTokenDecode == \E t \in Callers : GetToken_Decode(t)
GetTokenTestSession == \E t \in Callers : GetToken_TestSession(t)
GetTokenNewSession == \E t \in Callers : GetToken_NewSession(t)
GetTokenFetch == \E t \in Callers : GetToken_Fetch(t)
RenewStore == \E t \in Callers : Renew_Store(t)
RenewReturn == \E t \in Callers : Renew_Return(t)

NextThreads ==
    \/ InitSettingsThreads
    \/ SetCredentialsThreads
    \/ RenewTest
    \/ GetTokenDecode
    \/ GetTokenTestSession
    \/ GetTokenNewSession
    \/ GetTokenFetch
    \/ RenewStore
    \/ RenewReturn

SpecThreads == Init /\ [][NextThreads]_vars

(***************************************************************************)
(* SpecAll: every function of the module, called one after the other       *)
(***************************************************************************)

\* The clock stands still here as well.

GetTokenFew == \E a \in OneAnswer(FewResponses) : GetTokenWith(a)
RenewTokenIfNeededFew ==
    \E a \in OneAnswer(FewResponses) : RenewTokenIfNeededWith(a)
GetAuthHeadersFew == \E a \in OneAnswer(FewResponses) : GetAuthHeadersWith(a)

NextAll ==
    \/ InitSettingsOtel
    \/ SetEnableOpentelemetry
    \/ GetTokenFew
    \/ RenewTokenIfNeededFew
    \/ GetAuthHeadersFew
    \/ GetLogger
    \/ GetResourceAttributes
    \/ GetMetricsExporter
    \/ GetSpanExporter
    \/ GetLogExporter
    \/ InstrumentApp
    \/ ShutdownInstrumentation

SpecAll == Init /\ [][NextAll]_vars

(***************************************************************************)
(* The claims                                                              *)
(***************************************************************************)

\* How often e occurs in a call's log.
Occurs(ev, e) == Cardinality({i \in DOMAIN ev : ev[i] = e})

\* Credentials values CPython rejects or get_token takes as none: None, "",
\* incorrect padding, a non-ASCII str, bytes that are not UTF-8, no ':',
\* two ':'.
BadCredentials ==
    { NoneStr, <<>>, <<89, 84, 112>>, <<233>>, <<47, 119, 61, 61>>,
      <<89, 87, 73, 61>>, <<89, 84, 112, 105, 79, 109, 77, 61>> }

\* Well-formed credentials values with what CPython decodes them to.
GoodCredentials ==
    { [c |-> <<89, 84, 112, 105>>, id |-> <<97>>, secret |-> <<98>>],
      [c |-> <<89, 122, 112, 107, 90, 81, 61, 61>>,
       id |-> <<99>>, secret |-> <<100, 101>>],
      [c |-> <<89, 84, 33, 112, 105>>, id |-> <<97>>, secret |-> <<98>>],
      [c |-> <<79, 103, 61, 61>>, id |-> <<>>, secret |-> <<>>],
      [c |-> <<119, 54, 107, 54>>, id |-> <<233>>, secret |-> <<>>] }

\* C1: with credentials that are empty, absent or malformed (not base64, not
\* UTF-8, not exactly one ':'), a get_token() call returns, and returns a
\* token with access_token "" and expires_at within [now, now + 7200], and
\* sends no request to the token endpoint.
C1_PlaceholderOnBadCredentials ==
    [][ ((settings = None \/ settings.credentials \in BadCredentials)
         /\ GetToken)
        => /\ last'.exc = ""
           /\ last'.ret.access_token = ""
           /\ last'.ret.expires_at >= now
           /\ last'.ret.expires_at <= now + 7200
           /\ last'.reqs = <<>>
           /\ Occurs(last'.ev, "fetch_token") = 0 ]_vars

\* get_token() has returned the placeholder on malformed credentials.
C1_Witness ==
    /\ last.op = "get_token"
    /\ last.exc = ""
    /\ last.reqs = <<>>
    /\ last.ret = [access_token |-> "", expires_at |-> now + 7200]
    /\ settings # None
    /\ settings.credentials \in BadCredentials \ {NoneStr, <<>>}

\* C2: renew_token_if_needed() called with a cached token that is still
\* valid fetches nothing, returns the cached token and leaves it unchanged.
C2_CacheHit ==
    [][ (current_token # None /\ current_token.expires_at > now
         /\ RenewTokenIfNeeded)
        => /\ last'.ev = <<"renew_token_if_needed">>
           /\ last'.reqs = <<>>
           /\ last'.exc = ""
           /\ last'.ret = current_token
           /\ UNCHANGED tokenVars ]_vars

\* renew_token_if_needed() has returned a fetched token from the cache.
C2_Witness ==
    /\ last.op = "renew_token_if_needed"
    /\ last.pre_token # None
    /\ last.pre_token.access_token # ""
    /\ last.pre_token.expires_at > now
    /\ last.ev = <<"renew_token_if_needed">>
    /\ last.ret = last.pre_token
    /\ current_token = last.pre_token

\* C3: renew_token_if_needed() called when no token is cached, or when the
\* cached token's expires_at has passed, calls get_token() exactly once; what
\* get_token() returns is stored as the cached token and returned.
C3_RenewOnExpiry ==
    [][ \A a \in OneAnswer(Responses) :
          ((current_token = None \/ current_token.expires_at < now)
           /\ RenewTokenIfNeededWith(a))
          => /\ Occurs(last'.ev, "get_token") = 1
             /\ Len(last'.reqs) <= 1
             /\ last'.exc = get_token(Globals(a)).exc
             /\ last'.exc = ""
                => /\ last'.ret = get_token(Globals(a)).ret
                   /\ current_token' = last'.ret ]_vars

\* renew_token_if_needed() has replaced an expired token.
C3_Witness ==
    /\ last.op = "renew_token_if_needed"
    /\ last.pre_token # None
    /\ last.pre_token.expires_at < now
    /\ last.exc = ""
    /\ Occurs(last.ev, "get_token") = 1
    /\ current_token = last.ret
    /\ current_token # last.pre_token

\* C4, as claimed: the cached token is valid only when expires_at is
\* strictly greater than the current time; when it is equal or less,
\* get_token() is called and the cached token replaced.
C4_AsClaimed ==
    [][ (current_token # None /\ RenewTokenIfNeeded)
        => /\ current_token.expires_at > now
              => /\ Occurs(last'.ev, "get_token") = 0
                 /\ current_token' = current_token
           /\ current_token.expires_at <= now
              => /\ Occurs(last'.ev, "get_token") = 1
                 /\ last'.exc = "" => current_token' = last'.ret ]_vars

\* C4, amended: the cached token is valid when expires_at is greater than or
\* equal to the current time, and is then returned from the cache; only when
\* expires_at is strictly less is get_token() called and the cached token
\* replaced.
C4_ValidUntilPassed ==
    [][ (current_token # None /\ RenewTokenIfNeeded)
        => /\ current_token.expires_at >= now
              => /\ Occurs(last'.ev, "get_token") = 0
                 /\ last'.ret = current_token
                 /\ current_token' = current_token
           /\ current_token.expires_at < now
              => /\ Occurs(last'.ev, "get_token") = 1
                 /\ last'.exc = "" => current_token' = last'.ret ]_vars

\* renew_token_if_needed() has run at the very instant of expiry and
\* returned the cached token.
C4_Witness ==
    /\ last.op = "renew_token_if_needed"
    /\ last.pre_token # None
    /\ last.pre_token.expires_at = now
    /\ last.ev = <<"renew_token_if_needed">>
    /\ last.ret = last.pre_token
    /\ current_token = last.pre_token

\* C5: with well-formed credentials "id:secret", a get_token() call sends
\* exactly one request to the token endpoint, with the client_id and
\* client_secret decoded from the credentials it read, and returns the
\* endpoint's payload.
C5_OneRequestPerCall ==
    [][ \A a \in OneAnswer(Responses), good \in GoodCredentials :
          (settings # None /\ settings.credentials = good.c /\ GetTokenWith(a))
          => /\ Len(last'.reqs) = 1
             /\ Occurs(last'.ev, "fetch_token") = 1
             /\ last'.reqs[1].client_id = good.id
             /\ last'.reqs[1].client_secret = good.secret
             /\ last'.reqs[1].url = "https://api/oauth/token"
             /\ IF a[1].ok
                THEN /\ last'.exc = ""
                     /\ last'.ret = [ access_token |-> a[1].access_token,
                                      expires_at |-> now + a[1].lifetime ]
                ELSE last'.exc = "OAuthError" ]_vars

\* get_token() has fetched a token with credentials other than those the
\* session was created with.
C5_Witness ==
    /\ last.op = "get_token"
    /\ last.exc = ""
    /\ last.ret.access_token = "tokB"
    /\ Len(last.reqs) = 1
    /\ last.reqs[1].client_id = <<99>>
    /\ last.reqs[1].client_secret = <<100, 101>>
    /\ last.reqs[1].session.client_id = <<97>>

\* C6: a failure of the token endpoint reaches the caller of get_token(),
\* renew_token_if_needed() and get_auth_headers() as an error, and the call
\* has sent the one request that failed, no second one.
C6_FailurePropagates ==
    [][ \A a \in OneAnswer(Responses) :
          (/\ ~a[1].ok
           /\ \/ GetTokenWith(a)
              \/ RenewTokenIfNeededWith(a)
              \/ GetAuthHeadersWith(a)
           /\ last'.reqs # <<>>)
          => /\ last'.exc = "OAuthError"
             /\ Len(last'.reqs) = 1
             /\ Occurs(last'.ev, "fetch_token") = 1 ]_vars

\* get_auth_headers() has raised the endpoint's failure.
C6_Witness ==
    /\ last.op = "get_auth_headers"
    /\ last.exc = "OAuthError"
    /\ Len(last.reqs) = 1

\* C7: what get_auth_headers() returns has exactly the keys authorization
\* and x-beamlit-workspace; authorization is "Bearer " followed by the
\* access_token of the token renew_token_if_needed() returned ("Bearer " alone
\* for the placeholder), x-beamlit-workspace is the settings' workspace.
C7_AuthHeaders ==
    [][ \A a \in OneAnswer(Responses) :
          (GetAuthHeadersWith(a) /\ last'.exc = "")
          => /\ DOMAIN last'.ret = {"authorization", "x-beamlit-workspace"}
             /\ \E r \in {renew_token_if_needed(Log(Globals(a), "get_auth_headers"))} :
                   last'.ret["authorization"] = "Bearer " \o r.ret.access_token
             /\ current_token'.access_token = ""
                => last'.ret["authorization"] = "Bearer "
             /\ last'.ret["x-beamlit-workspace"] = settings.workspace ]_vars

\* get_auth_headers() has returned the headers of the placeholder token.
C7_Witness ==
    /\ last.op = "get_auth_headers"
    /\ last.exc = ""
    /\ current_token.access_token = ""
    /\ last.ret["authorization"] = "Bearer "
    /\ last.ret["x-beamlit-workspace"] = "main"

\* The instrument_app call before the one that starts now returned with
\* telemetry enabled.
PreviousCallEnabled ==
    /\ instrument_calls # <<>>
    /\ instrument_calls[Len(instrument_calls)] = "enabled"

\* No instrument_app call so far ran with telemetry disabled.
NoDisabledCall == \A i \in DOMAIN instrument_calls : instrument_calls[i] # "disabled"

\* What the second of two telemetry-enabled instrument_app calls does
\* according to C8: it finds the three real providers installed, constructs
\* and sets none, builds no exporter, adds no handler, and takes the tracer
\* and the meter handle from the installed providers.
ReusesProviders ==
    /\ last'.exc = ""
    /\ TRACER_PROVIDER # None /\ TRACER_PROVIDER.kind = "sdk"
    /\ METER_PROVIDER # None /\ METER_PROVIDER.kind = "sdk"
    /\ LOGGER_PROVIDER # None /\ LOGGER_PROVIDER.kind = "sdk"
    /\ last'.ev = << "instrument_app", "FastAPIInstrumentor.instrument_app",
                    "HTTPXClientInstrumentor.instrument" >>
    /\ last'.reqs = <<>>
    /\ UNCHANGED <<TRACER_PROVIDER, METER_PROVIDER, LOGGER_PROVIDER, root_handlers>>
    /\ tracer' = Handle(TRACER_PROVIDER)
    /\ meter' = Handle(METER_PROVIDER)

C9_TelemetryDisabled ==
    [][ (settings # None /\ ~settings.enable_opentelemetry)
        => /\ (GetMetricsExporter \/ GetSpanExporter \/ GetLogExporter)
              => /\ last'.exc = ""
                 /\ last'.ret = None
                 /\ last'.ev = <<last'.op>>
                 /\ last'.reqs = <<>>
                 /\ UNCHANGED <<tokenVars, otelVars>>
           /\ InstrumentApp
              => /\ last'.exc = ""
                 /\ last'.ev = << "instrument_app",
                                 "NoOpTracerProvider", "set_tracer_provider",
                                 "NoOpMeterProvider", "set_meter_provider" >>
                 /\ last'.reqs = <<>>
                 /\ UNCHANGED <<tokenVars, LOGGER_PROVIDER, root_handlers>>
                 /\ TRACER_PROVIDER' # TRACER_PROVIDER
                    => TRACER_PROVIDER'.kind = "noop"
                 /\ METER_PROVIDER' # METER_PROVIDER
                    => METER_PROVIDER'.kind = "noop" ]_vars

\* With telemetry disabled, instrument_app has set the no-op providers and
\* an exporter function has then returned None.
C9_Witness ==
    /\ settings # None
    /\ ~settings.enable_opentelemetry
    /\ instrument_calls = <<"disabled">>
    /\ TRACER_PROVIDER.kind = "noop"
    /\ METER_PROVIDER.kind = "noop"
    /\ LOGGER_PROVIDER = None
    /\ root_handlers = <<>>
    /\ last.op = "get_span_exporter"
    /\ last.exc = ""
    /\ last.ret = None
    /\ current_token = None

\* C10: shutdown_instrumentation() returns without error; it calls shutdown
\* on the trace (metric) provider exactly when the tracer (meter) handle is
\* set and the global provider is the real kind, and so on no provider
\* before any instrument_app call and after only telemetry-disabled calls.
C10_Shutdown ==
    [][ ShutdownInstrumentation
        => /\ last'.exc = ""
           /\ last'.reqs = <<>>
           /\ UNCHANGED <<tokenVars, otelVars>>
           /\ Occurs(last'.ev, "TracerProvider.shutdown")
                = IF /\ tracer # None
                     /\ TRACER_PROVIDER # None
                     /\ TRACER_PROVIDER.kind = "sdk"
                  THEN 1 ELSE 0
           /\ Occurs(last'.ev, "MeterProvider.shutdown")
                = IF /\ meter # None
                     /\ METER_PROVIDER # None
                     /\ METER_PROVIDER.kind = "sdk"
                  THEN 1 ELSE 0
           /\ Len(last'.ev) = 1 + Occurs(last'.ev, "TracerProvider.shutdown")
                                + Occurs(last'.ev, "MeterProvider.shutdown")
           /\ (\A i \in DOMAIN instrument_calls :
                  instrument_calls[i] \in {"unset", "disabled"})
              => last'.ev = <<"shutdown_instrumentation">> ]_vars

\* shutdown_instrumentation() has run after telemetry-disabled
\* instrument_app calls only, with the handles set, and shut nothing down.
C10_Witness ==
    /\ last.op = "shutdown_instrumentation"
    /\ last.exc = ""
    /\ last.ev = <<"shutdown_instrumentation">>
    /\ instrument_calls = <<"disabled", "disabled">>
    /\ tracer # None
    /\ meter # None

\* C11: threads calling renew_token_if_needed() at the same time.  Whatever
\* the interleaving, the cached token is the value of the last assignment
\* to it and is one whole token that some get_token() call returned, never
\* a mix of two; and every thread returns a token that some get_token()
\* call returned.  (That several threads pass the test before any of them
\* writes, and each fetch a token, is the state C11_Witness describes.)
C11_LastWriteWins ==
    /\ current_token # None
       => /\ current_token = assigned
          /\ current_token \in produced
    /\ \A t \in Callers :
          callers[t].ret # None => callers[t].ret \in produced

\* Both of two threads found no cached token, fetched a token each, a
\* different one, and neither has written yet.
C11_Witness ==
    /\ current_token = None
    /\ callers[1].pc = "store"
    /\ callers[2].pc = "store"
    /\ callers[1].token # callers[2].token
    /\ callers[1].token.access_token # ""
    /\ callers[2].token.access_token # ""

\* C12, as claimed: the session is created at most once in the process, and
\* once set it is never replaced.
C12_AsClaimed ==
    [][ /\ sessions_created' <= 1
        /\ oauth_session # None => oauth_session' = oauth_session ]_vars

\* A thread is between finding no session (line 72) and assigning the one
\* it creates (lines 73-75).
CreatingSession(t) == callers[t].pc = "new_session"

\* C12, amended: a session is created only by a get_token() call that has
\* decoded well-formed credentials and found no session, and it is bound to
\* those credentials; the placeholder paths create none.  Once the session
\* is set and no call that found it unset is still about to assign its own,
\* it is never replaced, whatever the credentials in the settings become.
\* Calls that overlap can each find no session and each create one, one per
\* thread at most.
C12_SessionCreatedLazily ==
    [][ /\ \A t \in Callers :
              (~CreatingSession(t) /\ CreatingSession(t)')
              => /\ oauth_session = None
                 /\ callers[t].creds # None
        /\ (oauth_session' # oauth_session \/ sessions_created' # sessions_created)
           => \E t \in Callers :
                 /\ CreatingSession(t)
                 /\ callers'[t].pc = "fetch"
                 /\ sessions_created' = sessions_created + 1
                 /\ oauth_session' = OAuth2Session(callers[t].creds.client_id,
                                                   callers[t].creds.client_secret)
        /\ (oauth_session # None /\ \A t \in Callers : ~CreatingSession(t))
           => /\ oauth_session' = oauth_session
              /\ sessions_created' = sessions_created
        /\ sessions_created' <= Cardinality(Callers) ]_vars

\* The session was created once, for the credentials a:b; the settings now
\* hold the credentials c:de, a call has decoded them, found the session
\* set and is about to fetch through it.
C12_Witness ==
    /\ sessions_created = 1
    /\ oauth_session = OAuth2Session(<<97>>, <<98>>)
    /\ settings.credentials = <<89, 122, 112, 107, 90, 81, 61, 61>>
    /\ \E t \in Callers :
          /\ callers[t].pc = "fetch"
          /\ callers[t].creds.client_id = <<99>>
    /\ \A t \in Callers : ~CreatingSession(t)

C14_OnlyRenewAssigns ==
    [][ /\ last'.op \in { "get_token", "shutdown_instrumentation",
                          "get_logger", "get_resource_attributes" }
           => current_token' = current_token
        /\ current_token' # current_token
           => /\ Occurs(last'.ev, "renew_token_if_needed") >= 1
              /\ Occurs(last'.ev, "get_token") >= 1
              /\ current_token' \in
                    [access_token : AccessTokens \cup {""}, expires_at : Int]
              /\ last'.op # "renew_token_if_needed"
                 => /\ Occurs(last'.ev, "get_auth_headers") >= 1
                    /\ Occurs(last'.ev, "get_auth_headers")
                         = Occurs(last'.ev, "renew_token_if_needed") ]_vars

\* A direct get_token() call has returned a fetched token, and the cached
\* token is the other token it was before the call.
C14_Witness ==
    /\ last.op = "get_token"
    /\ last.exc = ""
    /\ last.ret.access_token = "tokB"
    /\ current_token # None
    /\ current_token = last.pre_token
    /\ current_token.access_token = "tokA"

\* The exporters a provider was given.
ExportersOf(p) == IF p = None THEN <<>> ELSE p.exporters

\* C15: with telemetry enabled, every call of an exporter function calls
\* get_auth_headers() once, then: the exporter it returns carries the
\* headers of the token cached when it returns, which is the token renewed
\* in this call if the cached one was absent or expired, and the cached one
\* otherwise.  An exporter a provider was given keeps the headers it was
\* constructed with, whatever is renewed later.
C15_ExporterHeaders ==
    [][ /\ (/\ settings # None
            /\ settings.enable_opentelemetry
            /\ (GetSpanExporter \/ GetMetricsExporter \/ GetLogExporter))
           => /\ Occurs(last'.ev, "get_auth_headers") = 1
              /\ last'.ev[2] = "get_auth_headers"
              /\ last'.exc = ""
                 => /\ last'.ret.headers
                         = AuthHeaders(current_token', settings.workspace)
                    /\ IF current_token = None
                          \/ TokenExpired(current_token, now)
                       THEN /\ Occurs(last'.ev, "get_token") = 1
                            /\ Len(last'.reqs)
                                 = IF settings.credentials = <<>> THEN 0 ELSE 1
                            /\ last'.ret.headers["authorization"]
                                 = "Bearer " \o current_token'.access_token
                       ELSE /\ current_token' = current_token
                            /\ last'.reqs = <<>>
        /\ ExportersOf(TRACER_PROVIDER) # <<>>
           => ExportersOf(TRACER_PROVIDER') = ExportersOf(TRACER_PROVIDER)
        /\ ExportersOf(METER_PROVIDER) # <<>>
           => ExportersOf(METER_PROVIDER') = ExportersOf(METER_PROVIDER)
        /\ ExportersOf(LOGGER_PROVIDER) # <<>>
           => ExportersOf(LOGGER_PROVIDER') = ExportersOf(LOGGER_PROVIDER) ]_vars

\* The trace provider's exporter was constructed with the token tokA; that
\* token expired, and get_span_exporter() has now returned an exporter with
\* the renewed token tokB, while the provider's exporter still carries tokA.
C15_Witness ==
    /\ last.op = "get_span_exporter"
    /\ last.exc = ""
    /\ last.pre_token # None
    /\ last.pre_token.access_token = "tokA"
    /\ last.ret.headers["authorization"] = "Bearer tokB"
    /\ current_token.access_token = "tokB"
    /\ ExportersOf(TRACER_PROVIDER) # <<>>
    /\ TRACER_PROVIDER.exporters[1].headers["authorization"] = "Bearer tokA"

\* The last call was renew_token_if_needed(), alone or inside
\* get_auth_headers(), and get_token() raised in it.
RenewalFailed ==
    /\ last.op \in {"renew_token_if_needed", "get_auth_headers"}
    /\ last.exc = "OAuthError"

\* C16: when get_token() raises inside renew_token_if_needed(), the cached
\* token is what it was before the call, absent or the expired token, and
\* stays in need of renewal; the next renew_token_if_needed() call calls
\* get_token() again, which with well-formed credentials sends a request
\* again.  Nothing of the failed fetch is cached.
C16_FailedFetchNotCached ==
    [][ /\ RenewalFailed'
           => /\ current_token' = last'.pre_token
              /\ \/ current_token' = None
                 \/ TokenExpired(current_token', now')
        /\ (RenewalFailed /\ (RenewTokenIfNeeded \/ GetAuthHeaders))
           => /\ Occurs(last'.ev, "get_token") = 1
              /\ (\E g \in GoodCredentials : g.c = settings.credentials)
                 => Len(last'.reqs) = 1 ]_vars

\* renew_token_if_needed() found the expired token tokA cached, sent its
\* request and raised the endpoint's failure: tokA is still cached.
C16_Witness ==
    /\ RenewalFailed
    /\ last.op = "renew_token_if_needed"
    /\ Len(last.reqs) = 1
    /\ current_token # None
    /\ current_token = last.pre_token
    /\ current_token.access_token = "tokA"
    /\ TokenExpired(current_token, now)

C18_LoggerNeverSet ==
    /\ logger = None
    /\ last.op = "get_logger"
       => /\ last.exc = "Logger is not initialized"
          /\ last.ret = None
          /\ last.ev = <<"get_logger">>

\* instrument_app has returned with telemetry enabled, a real log provider
\* is set and its handler added, and get_logger() has raised.
C18_Witness ==
    /\ last.op = "get_logger"
    /\ last.exc = "Logger is not initialized"
    /\ instrument_calls # <<>>
    /\ instrument_calls[Len(instrument_calls)] = "enabled"
    /\ LOGGER_PROVIDER # None
    /\ LOGGER_PROVIDER.kind = "sdk"
    /\ Len(root_handlers) = 1

\* This step is an instrument_app call.
InstrumentAppStep ==
    /\ instrument_calls' # instrument_calls
    /\ last'.op = "instrument_app"

\* The log handler is added to the root logger only in a call that sets a
\* new real log provider, and it is the handler of that provider; so the
\* root logger has one such handler at most.
HandlerOnlyWithNewProvider ==
    /\ root_handlers' # root_handlers
       => /\ LOGGER_PROVIDER = None
          /\ LOGGER_PROVIDER' # None
          /\ LOGGER_PROVIDER'.kind = "sdk"
          /\ Occurs(last'.ev, "addHandler") = 1
          /\ root_handlers' = Append(root_handlers, Handle(LOGGER_PROVIDER'))
    /\ root_handlers' = root_handlers => Occurs(last'.ev, "addHandler") = 0
    /\ Len(root_handlers') <= 1

\* The call instrumented the FastAPI app and HTTPX, once each, as its last
\* two acts.
InstrumentationIssued ==
    /\ Occurs(last'.ev, "FastAPIInstrumentor.instrument_app") = 1
    /\ Occurs(last'.ev, "HTTPXClientInstrumentor.instrument") = 1
    /\ last'.ev[Len(last'.ev) - 1] = "FastAPIInstrumentor.instrument_app"
    /\ last'.ev[Len(last'.ev)] = "HTTPXClientInstrumentor.instrument"

\* C19, as claimed: in any sequence of instrument_app calls the log handler
\* is added only in a call that sets a new real log provider, one handler
\* at most, while the FastAPI and HTTPX instrumentation is issued in every
\* instrument_app call made with telemetry enabled.
C19_AsClaimed ==
    [][ InstrumentAppStep
        => /\ HandlerOnlyWithNewProvider
           /\ (settings # None /\ settings.enable_opentelemetry)
              => InstrumentationIssued ]_vars

\* C19, amended: the same, the FastAPI and HTTPX instrumentation being
\* issued in every instrument_app call made with telemetry enabled that
\* returns; a call that raises, from an exporter function, has issued
\* neither.
C19_HandlerOnceInstrumentEveryCall ==
    [][ InstrumentAppStep
        => /\ HandlerOnlyWithNewProvider
           /\ (settings # None /\ settings.enable_opentelemetry)
              => IF last'.exc = ""
                 THEN InstrumentationIssued
                 ELSE /\ Occurs(last'.ev, "FastAPIInstrumentor.instrument_app") = 0
                      /\ Occurs(last'.ev, "HTTPXClientInstrumentor.instrument") = 0 ]_vars

\* Three instrument_app calls with telemetry enabled: the first raised, the
\* second set the log provider and added its handler, the third reused all
\* providers, added no handler and issued the instrumentation again.
C19_Witness ==
    /\ instrument_calls = <<"raised", "enabled", "enabled">>
    /\ last.op = "instrument_app"
    /\ last.ev = << "instrument_app", "FastAPIInstrumentor.instrument_app",
                   "HTTPXClientInstrumentor.instrument" >>
    /\ LOGGER_PROVIDER.kind = "sdk"
    /\ root_handlers = <<Handle(LOGGER_PROVIDER)>>
=============================================================================
